---- MODULE Spec2Model ----
(***************************************************************************)
(* Model of OxaamAutomation.extract_credentials_from_html                  *)
(* (src/oxaam_automation.py).  A document is a sequence of lexical items   *)
(* (the pieces of markup the function's regular expressions look at);      *)
(* every textual value is a sequence of one-character strings, so that     *)
(* strip(), lower(), replace(), startswith(), len() and the `in` tests are *)
(* computed on characters as the code computes them.  The later sections  *)
(* model run() and extract_all_accounts on one instance, and the request   *)
(* handler and background threads of src/app.py.                           *)
(***************************************************************************)
EXTENDS Naturals, Sequences, FiniteSets

VARIABLES html, details_blocks, idx, accounts, origin, now, pc, raised, returned

\* the OxaamAutomation instance, the registered-users file and the position of
\* run(): free_accounts, catbox_url and account_credentials are the instance's
\* attributes, upload is the local catbox_url of extract_all_accounts,
\* registered_users is the content of oxaam_registered_users.json, rpc is the
\* position of run(); runs, registered and save_failed count the calls of
\* run(), the successful returns of register_account and record a failed save
VARIABLES free_accounts, catbox_url, upload, registered_users,
          account_credentials, rpc, runs, registered, save_failed

instVars == <<free_accounts, catbox_url, upload, registered_users,
              account_credentials, rpc, runs, registered, save_failed>>

\* app.py: the globals scraping_status, latest_results and scraping_history;
\* thread is the position of each background thread in run_scraping,
\* automation the number of free_accounts of each thread's instance, wrote
\* the last progress each thread wrote, requests the count of GET /accounts
VARIABLES scraping_status, latest_results, scraping_history, thread, automation,
          wrote, requests

appVars == <<scraping_status, latest_results, scraping_history, thread, automation,
             wrote, requests>>

vars == <<html, details_blocks, idx, accounts, origin, now, pc, raised, returned,
          free_accounts, catbox_url, upload, registered_users,
          account_credentials, rpc, runs, registered, save_failed,
          scraping_status, latest_results, scraping_history, thread, automation,
          wrote, requests>>

----------------------------------------------------------------------------
(* Bounds of the model *)

\* longest document (in lexical items) of the document-level specification
MaxDocLen == 6
\* longest block body (in lexical items) of the block-level specification
MaxBlockLen == 3

----------------------------------------------------------------------------
(* Characters and the string functions the code calls *)

UpperCase == <<"A","B","C","D","E","F","G","H","I","J","K","L","M",
               "N","O","P","Q","R","S","T","U","V","W","X","Y","Z">>
LowerCase == <<"a","b","c","d","e","f","g","h","i","j","k","l","m",
               "n","o","p","q","r","s","t","u","v","w","x","y","z">>
DigitChars == <<"0","1","2","3","4","5","6","7","8","9">>

Range(s) == {s[i] : i \in DOMAIN s}

Letters == Range(UpperCase) \cup Range(LowerCase)
\* [a-zA-Z0-9._%+-]
LocalChars == Letters \cup Range(DigitChars) \cup {".", "_", "%", "+", "-"}
\* [a-zA-Z0-9.-]
DomainChars == Letters \cup Range(DigitChars) \cup {".", "-"}
\* \s, and what str.strip() removes
Whitespace == {" ", "\t", "\n", "\r"}

\* c in s, for a one-character c
HasChar(s, c) == \E i \in DOMAIN s : s[i] = c

\* sub in s
HasSub(s, sub) ==
    \E i \in 1..(Len(s) + 1) :
        /\ i + Len(sub) - 1 <= Len(s)
        /\ SubSeq(s, i, i + Len(sub) - 1) = sub

\* s.startswith(p)
StartsWith(s, p) == Len(p) <= Len(s) /\ SubSeq(s, 1, Len(p)) = p

\* the lower-case letter of each upper-case letter
LowerOf == [c \in Range(UpperCase) |->
              LowerCase[CHOOSE i \in DOMAIN UpperCase : UpperCase[i] = c]]

LowerChar(c) == IF c \in DOMAIN LowerOf THEN LowerOf[c] ELSE c

\* s.lower()
Lower(s) == [i \in DOMAIN s |-> LowerChar(s[i])]

RECURSIVE LStrip(_)
LStrip(s) ==
    IF s # <<>> /\ Head(s) \in Whitespace THEN LStrip(Tail(s)) ELSE s

RECURSIVE RStrip(_)
RStrip(s) ==
    IF s # <<>> /\ s[Len(s)] \in Whitespace
    THEN RStrip(SubSeq(s, 1, Len(s) - 1)) ELSE s

\* s.strip()
Strip(s) == RStrip(LStrip(s))

Nbsp == <<"&","n","b","s","p",";">>

\* s.replace('&nbsp;', ' ')
RECURSIVE ReplaceNbsp(_)
ReplaceNbsp(s) ==
    IF s = <<>> THEN <<>>
    ELSE IF StartsWith(s, Nbsp)
         THEN <<" ">> \o ReplaceNbsp(SubSeq(s, Len(Nbsp) + 1, Len(s)))
         ELSE <<Head(s)>> \o ReplaceNbsp(Tail(s))

\* str(n), n >= 0
RECURSIVE Str(_)
Str(n) ==
    IF n < 10 THEN <<DigitChars[n + 1]>>
    ELSE Str(n \div 10) \o <<DigitChars[(n % 10) + 1]>>

\* length of the longest run of characters of S in s that starts at index from
RECURSIVE RunLen(_, _, _)
RunLen(s, from, S) ==
    IF from <= Len(s) /\ s[from] \in S THEN 1 + RunLen(s, from + 1, S) ELSE 0

\* What [a-zA-Z0-9._%+-]+@[a-zA-Z0-9.-]+\.[a-zA-Z]{2,} matches at the start of
\* s (greedy, with backtracking over the domain part); <<>> when it does not.
AddrPrefix(s) ==
    LET n1 == RunLen(s, 1, LocalChars)
        d0 == n1 + 2
        n2 == RunLen(s, d0, DomainChars)
        dots == {j \in (d0 + 1)..(d0 + n2 - 1) :
                    /\ s[j] = "."
                    /\ RunLen(s, j + 1, Letters) >= 2}
    IN  IF n1 >= 1 /\ n1 + 1 <= Len(s) /\ s[n1 + 1] = "@" /\ dots # {}
        THEN LET j == CHOOSE x \in dots : \A y \in dots : y <= x
             IN  SubSeq(s, 1, j + RunLen(s, j + 1, Letters))
        ELSE <<>>

\* the whole of s matches the address pattern
IsAddress(s) == s # <<>> /\ AddrPrefix(s) = s

\* What [^\s<]+ matches at the start of s; <<>> when it does not.
BareToken(s) == SubSeq(s, 1, RunLen(s, 1, {s[i] : i \in DOMAIN s} \ (Whitespace \cup {"<"})))

----------------------------------------------------------------------------
(* Literals of the code *)

BaseUrl == <<"h","t","t","p","s",":","/","/","w","w","w",".",
             "o","x","a","a","m",".","c","o","m","/">>
Http == <<"h","t","t","p">>
OfficialPhp == <<"o","f","f","i","c","i","a","l",".","p","h","p">>
CookieWord == <<"c","o","o","k","i","e">>
CookieJsonWord == <<"c","o","o","k","i","e","j","s","o","n">>
ServicePrefix == <<"S","e","r","v","i","c","e","_">>
CookieLogin == <<"C","o","o","k","i","e","-","b","a","s","e","d"," ",
                 "l","o","g","i","n">>
NA == <<"N","/","A">>
MinPasswordLen == 5

----------------------------------------------------------------------------
(* Lexical items.  k is the kind of markup, v the text it carries:         *)
(*   Open      <details ...>            Close     </details>               *)
(*   Strong    <strong>v</strong>                                          *)
(*   EmailSpan Email ➜ <span>v</span>   EmailBare Email ➜ v                *)
(*   PwdSpan   Password ➜ <span>v</span> PwdBare  Password ➜ v             *)
(*   DataCopy  data-copy="v"            Href      href="v"                 *)
(*   Text      v                                                           *)
(* The label words and the details tags are matched with re.IGNORECASE, so *)
(* an item stands for every casing of them; <strong>, href= and the        *)
(* data-copy= of the password scan are matched as spelled here.            *)

Item(k, v) == [k |-> k, v |-> v]

OpenTag == Item("Open", <<>>)
CloseTag == Item("Close", <<>>)

AddrVal == <<"a","@","b",".","c","o">>
NoTldVal == <<"x","@","y">>
SecretVal == <<"s","e","c","r","e","t">>
ShortVal == <<"a","b","c","1","2">>
PaddedVal == <<" ","p","w","1","2"," ">>
BlankVal == <<" "," "," "," "," "," ">>
TokVal == <<"t","o","k">>
LabelVal == <<" ","T","V","&","n","b","s","p",";","+"," ">>
CookieVal == <<"C","o","o","k","i","e">>
RelHref == <<"s","/","o","f","f","i","c","i","a","l",".","p","h","p">>
AbsHref == <<"h","t","t","p",":","/","/","o","/",
             "o","f","f","i","c","i","a","l",".","p","h","p">>
OtherHref == <<"h","o","m","e",".","p","h","p">>

\* a character that sys.stdout cannot encode (a lone surrogate): print() of a
\* string that holds one raises UnicodeEncodeError
Surrogate == "U+DC80"
BadAddrVal == <<"a",Surrogate,"@","b",".","c","o">>
BadLabelVal == <<"T","V",Surrogate>>

\* the items a block body is drawn from in the block-level specification
BlockItems ==
    {Item("Strong", LabelVal)}
    \cup {Item("EmailSpan", v) : v \in {AddrVal, SecretVal, BlankVal}}
    \cup {Item("EmailBare", AddrVal)}
    \cup {Item("DataCopy", v) : v \in {AddrVal, SecretVal, ShortVal, PaddedVal, BlankVal}}
    \cup {Item("PwdSpan", v) : v \in {ShortVal, BlankVal}}
    \cup {Item("PwdBare", v) : v \in {TokVal, NoTldVal}}
    \cup {Item("Href", v) : v \in {RelHref, AbsHref, OtherHref}}
    \cup {Item("Text", CookieVal)}

\* the items a document is drawn from in the document-level specification
DocItems ==
    {OpenTag, CloseTag, Item("Strong", LabelVal), Item("Text", CookieVal),
     Item("DataCopy", SecretVal), Item("EmailSpan", AddrVal)}

\* the items a document is drawn from where print() can fail
FaultItems ==
    {OpenTag, CloseTag, Item("Strong", BadLabelVal), Item("EmailSpan", BadAddrVal),
     Item("Text", CookieVal), Item("DataCopy", SecretVal)}

\* the items a document that is extracted twice is drawn from
TwiceItems == {OpenTag, CloseTag, Item("Text", CookieVal), Item("EmailSpan", AddrVal)}

\* the sequences over S of length at most n
SeqsUpTo(S, n) == UNION {[1..m -> S] : m \in 0..n}

----------------------------------------------------------------------------
(* re.findall(r'<details[^>]*>(.*?)</details>', html, DOTALL | IGNORECASE) *)

\* index of the first item of kind k at or after from; 0 when there is none
RECURSIVE FirstKind(_, _, _)
FirstKind(s, k, from) ==
    IF from > Len(s) THEN 0
    ELSE IF s[from].k = k THEN from
    ELSE FirstKind(s, k, from + 1)

RECURSIVE FindAllDetails(_, _)
FindAllDetails(doc, from) ==
    LET o == FirstKind(doc, "Open", from)
        c == IF o = 0 THEN 0 ELSE FirstKind(doc, "Close", o + 1)
    IN  IF o = 0 \/ c = 0 THEN <<>>
        ELSE <<SubSeq(doc, o + 1, c - 1)>> \o FindAllDetails(doc, c + 1)

----------------------------------------------------------------------------
(* The per-block field resolvers *)

\* re.search: the leftmost of the matching positions; 0 when there is none
FirstHit(hits) ==
    IF hits = {} THEN 0 ELSE CHOOSE i \in hits : \A j \in hits : i <= j

\* [^<]+ between the tags
SpanText(v) == v # <<>> /\ ~HasChar(v, "<")
\* [^"]+ / [^"]* between the quotes
AttrText(v) == ~HasChar(v, "\"")

StrongMatch(t) == t.k = "Strong" /\ SpanText(t.v)

ServiceNameByRecordCount(block, n) ==
    LET m == FirstHit({i \in DOMAIN block : StrongMatch(block[i])})
        service_name == IF m # 0 THEN Strip(block[m].v)
                        ELSE ServicePrefix \o Str(Len(accounts) + 1)
    IN  ReplaceNbsp(service_name)

ServiceName(block, n) ==
    LET m == FirstHit({i \in DOMAIN block : StrongMatch(block[i])})
        service_name == IF m # 0 THEN Strip(block[m].v) ELSE ServicePrefix \o Str(n)
    IN  ReplaceNbsp(service_name)

EmailSpanMatch(t) == t.k = "EmailSpan" /\ SpanText(t.v)
EmailBareMatch(t) == t.k = "EmailBare" /\ AddrPrefix(t.v) # <<>>
EmailCopyMatchAnyValue(t) == t.k = "DataCopy" /\ t.v # <<>>

EmailCopyMatch(t) == t.k = "DataCopy" /\ IsAddress(t.v)

ResolveEmail(block) ==
    LET a == FirstHit({i \in DOMAIN block : EmailSpanMatch(block[i])})
        b == FirstHit({i \in DOMAIN block : EmailBareMatch(block[i])})
        c == FirstHit({i \in DOMAIN block : EmailCopyMatch(block[i])})
    IN  IF a # 0 THEN Strip(block[a].v)
        ELSE IF b # 0 THEN Strip(AddrPrefix(block[b].v))
        ELSE IF c # 0 THEN Strip(block[c].v)
        ELSE <<>>

PwdSpanMatch(t) == t.k = "PwdSpan" /\ SpanText(t.v)
DataCopyMatch(t) == t.k = "DataCopy" /\ t.v # <<>> /\ AttrText(t.v)
PwdCopyMatchAnyValue(t) == DataCopyMatch(t) /\ Len(t.v) > MinPasswordLen

PwdCopyMatch(t) ==
    DataCopyMatch(t) /\ ~HasChar(t.v, "@") /\ Len(t.v) > MinPasswordLen
PwdBareMatch(t) == t.k = "PwdBare" /\ BareToken(t.v) # <<>>

PasswordMethod1(block) ==
    LET m == FirstHit({i \in DOMAIN block : PwdSpanMatch(block[i])})
    IN  IF m # 0 THEN Strip(block[m].v) ELSE <<>>

PasswordMethod2(block) ==
    LET m == FirstHit({i \in DOMAIN block : PwdCopyMatch(block[i])})
    IN  IF m # 0 THEN Strip(block[m].v) ELSE <<>>

PasswordMethod3(block) ==
    LET m == FirstHit({i \in DOMAIN block : PwdBareMatch(block[i])})
        pwd == IF m # 0 THEN Strip(BareToken(block[m].v)) ELSE <<>>
    IN  IF m # 0 /\ ~HasChar(pwd, "@") THEN pwd ELSE <<>>

ResolvePasswordBareBeforeCopy(block) ==
    LET p1 == PasswordMethod1(block)
        p3 == IF p1 # <<>> THEN p1 ELSE PasswordMethod3(block)
    IN  IF p3 # <<>> THEN p3 ELSE PasswordMethod2(block)

ResolvePassword(block) ==
    LET p1 == PasswordMethod1(block)
        p2 == IF p1 # <<>> THEN p1 ELSE PasswordMethod2(block)
    IN  IF p2 # <<>> THEN p2 ELSE PasswordMethod3(block)

HrefMatch(t) == t.k = "Href" /\ AttrText(t.v) /\ HasSub(t.v, OfficialPhp)

OfficialLinkUnresolved(block) ==
    LET m == FirstHit({i \in DOMAIN block : HrefMatch(block[i])})
    IN  IF m = 0 THEN <<>> ELSE block[m].v

OfficialLink(block) ==
    LET m == FirstHit({i \in DOMAIN block : HrefMatch(block[i])})
    IN  IF m = 0 THEN <<>>
        ELSE IF StartsWith(block[m].v, Http) THEN block[m].v
        ELSE BaseUrl \o block[m].v

IsCookieServiceCaseSensitive(block) ==
    \E i \in DOMAIN block :
        \/ HasSub(block[i].v, CookieWord)
        \/ HasSub(block[i].v, CookieJsonWord)

IsCookieService(block) ==
    \E i \in DOMAIN block :
        \/ HasSub(Lower(block[i].v), CookieWord)
        \/ HasSub(Lower(block[i].v), CookieJsonWord)

HasSignalBothCredentials(email, password, is_cookie_service) ==
    (email # <<>> /\ password # <<>>) \/ is_cookie_service

HasSignal(email, password, is_cookie_service) ==
    email # <<>> \/ password # <<>> \/ is_cookie_service

AccountInfoEmailForcesType(service_name, email, password, official_link, is_cookie_service, t) ==
    [service |-> service_name,
     email |-> IF email # <<>> THEN email ELSE CookieLogin,
     password |-> IF password # <<>> THEN password ELSE NA,
     official_website |-> IF official_link # <<>> THEN official_link ELSE NA,
     type |-> IF is_cookie_service /\ email = <<>> THEN "Cookie-based" ELSE "Email/Password",
     retrieved_at |-> t]

AccountInfo(service_name, email, password, official_link, is_cookie_service, t) ==
    [service |-> service_name,
     email |-> IF email # <<>> THEN email ELSE CookieLogin,
     password |-> IF password # <<>> THEN password ELSE NA,
     official_website |-> IF official_link # <<>> THEN official_link ELSE NA,
     type |-> IF is_cookie_service THEN "Cookie-based" ELSE "Email/Password",
     retrieved_at |-> t]

\* print(f"...{s}") returns instead of raising
Printable(s) == ~HasChar(s, Surrogate)

PrependAccount(accs, info) == <<info>> \o accs

AppendAccount(accs, info) == Append(accs, info)

----------------------------------------------------------------------------
(* extract_credentials_from_html as a state machine *)

Docs == SeqsUpTo(DocItems, MaxDocLen)
BlockDocs == {<<OpenTag>> \o body \o <<CloseTag>> : body \in SeqsUpTo(BlockItems, MaxBlockLen)}

\* None and the empty string: the code only tests them for truth
None == <<>>

\* lines 16-25: the attributes after __init__, no file of registered users,
\* run() not called
InitInstance ==
    /\ free_accounts = <<>>
    /\ catbox_url = <<>>
    /\ upload = None
    /\ registered_users = <<>>
    /\ account_credentials = ""
    /\ rpc = "idle"
    /\ runs = 0
    /\ registered = 0
    /\ save_failed = FALSE

\* the number of GET /accounts requests
MaxRequests == 2

\* a thread per request; the thread of an accepted request is a job
Jobs == 1..MaxRequests

\* app.py lines 16-37: the globals when no request has been made
InitGlobals ==
    /\ scraping_status = [is_running |-> FALSE, started_at |-> 0, completed_at |-> 0,
                          current_task |-> "", progress |-> 0, error |-> "None",
                          results |-> <<>>]
    /\ latest_results = [session_id |-> 0, total_accounts |-> 0]
    /\ scraping_history = <<>>
    /\ thread = [j \in Jobs |-> "none"]
    /\ automation = [j \in Jobs |-> 0]
    /\ wrote = [j \in Jobs |-> 0]
    /\ requests = 0

InitCall ==
    /\ InitInstance
    /\ InitGlobals
    /\ details_blocks = <<>>
    /\ idx = 0
    /\ accounts = <<>>
    /\ origin = <<>>
    /\ now = 0
    /\ pc = "start"
    /\ raised = {}
    /\ returned = <<>>

Init == html \in Docs /\ InitCall

InitBlock == html \in BlockDocs /\ InitCall

InitTwice == html \in SeqsUpTo(TwiceItems, MaxDocLen) /\ InitCall

InitFault == html \in SeqsUpTo(FaultItems, MaxDocLen) /\ InitCall

FindBlocksKeepsAccounts ==
    /\ pc = "start"
    /\ details_blocks' = FindAllDetails(html, 1)
    /\ raised' = {}
    /\ idx' = 0
    /\ pc' = "loop"
    /\ UNCHANGED <<html, now, returned, accounts, origin>>
    /\ UNCHANGED instVars
    /\ UNCHANGED appVars

\* lines 149-155: accounts = [], the blocks are found
FindBlocks ==
    /\ pc = "start"
    /\ details_blocks' = FindAllDetails(html, 1)
    /\ accounts' = <<>>
    /\ origin' = <<>>
    /\ raised' = {}
    /\ idx' = 0
    /\ pc' = "loop"
    /\ UNCHANGED <<html, now, returned>>
    /\ UNCHANGED instVars
    /\ UNCHANGED appVars

\* lines 157-236: one iteration of the loop over enumerate(details_blocks, 1).
\* datetime.now() is read when a record is made: the reading is the previous
\* one or a later one (now counts the readings that differed).  The print of
\* line 166 raises before anything is appended, those of lines 228-229 after
\* the append of line 226; the handler of lines 234-236 reports the block
\* (raised) and the loop goes on.
ProcessBlock ==
    /\ pc = "loop"
    /\ idx < Len(details_blocks)
    /\ LET n == idx + 1
           block == details_blocks[n]
           service_name == ServiceName(block, n)
           email == ResolveEmail(block)
           password == ResolvePassword(block)
           official_link == OfficialLink(block)
           is_cookie_service == IsCookieService(block)
       IN  /\ idx' = n
           /\ IF ~Printable(service_name)
              THEN /\ raised' = raised \cup {n}
                   /\ UNCHANGED <<accounts, origin, now>>
              ELSE IF HasSignal(email, password, is_cookie_service)
              THEN \E t \in {now, now + 1} :
                     LET account_info == AccountInfo(service_name, email, password,
                                                     official_link, is_cookie_service, t)
                     IN  /\ now' = t
                         /\ accounts' = AppendAccount(accounts, account_info)
                         /\ origin' = Append(origin, n)
                         /\ raised' = IF Printable(account_info.email)
                                         /\ Printable(account_info.password)
                                      THEN raised ELSE raised \cup {n}
              ELSE UNCHANGED <<accounts, origin, now, raised>>
    /\ UNCHANGED <<html, details_blocks, pc, returned>>
    /\ UNCHANGED instVars
    /\ UNCHANGED appVars

\* line 238: return accounts
Return ==
    /\ pc = "loop"
    /\ idx = Len(details_blocks)
    /\ pc' = "done"
    /\ returned' = Append(returned, accounts)
    /\ UNCHANGED <<html, details_blocks, idx, accounts, origin, now, raised>>
    /\ UNCHANGED instVars
    /\ UNCHANGED appVars

\* the caller calls the function again on the same document
CallAgain ==
    /\ pc = "done"
    /\ Len(returned) < 2
    /\ pc' = "start"
    /\ UNCHANGED <<html, details_blocks, idx, accounts, origin, now, raised, returned>>
    /\ UNCHANGED instVars
    /\ UNCHANGED appVars

Next == FindBlocks \/ ProcessBlock \/ Return

Spec == Init /\ [][Next]_vars

SpecBlock == InitBlock /\ [][Next]_vars

SpecFault == InitFault /\ [][Next]_vars

NextTwice == Next \/ CallAgain

SpecTwice == InitTwice /\ [][NextTwice]_vars

(***************************************************************************)
(* run() and extract_all_accounts on one instance, called one run after    *)
(* the other against the same file of registered users.                    *)
(***************************************************************************)

\* the number of sequential calls of run()
MaxRuns == 2

\* the pages page.content() returns: no block, a block without credentials,
\* one record, two records
Pages ==
    { <<>>,
      <<OpenTag, CloseTag>>,
      <<OpenTag, Item("EmailSpan", AddrVal), CloseTag>>,
      <<OpenTag, Item("EmailSpan", AddrVal), CloseTag,
        OpenTag, Item("Text", CookieVal), CloseTag>> }

\* what generate_random_email can return
Emails == {"user_1@gmail.com", "user_2@gmail.com"}

\* the stripped output of curl: empty on a failure or a timeout, a URL, or
\* an answer that is no URL
CurlOutputs == {<<>>, Http \o <<"/","1">>, Http \o <<"/","2">>, <<"e","r","r">>}

\* lines 118-127: the URL when the output starts with 'http', None otherwise
UploadToCatbox(out) == IF out # <<>> /\ StartsWith(out, Http) THEN out ELSE None

\* line 432: account['debug_html_url'] = url
WithDebugUrl(account, url) ==
    [f \in DOMAIN account \cup {"debug_html_url"} |->
        IF f = "debug_html_url" THEN url ELSE account[f]]

\* line 60: any(u['email'] == email for u in users)
IsAlreadyRegistered(email) == \E k \in DOMAIN registered_users : registered_users[k] = email

InitRun ==
    /\ html \in Pages
    /\ InitInstance
    /\ InitGlobals
    /\ details_blocks = <<>>
    /\ idx = 0
    /\ accounts = <<>>
    /\ origin = <<>>
    /\ now = 0
    /\ pc = "idle"
    /\ raised = {}
    /\ returned = <<>>

RunStartIgnoresStore ==
    /\ rpc = "idle"
    /\ runs < MaxRuns
    /\ runs' = runs + 1
    /\ rpc' = "register"
    /\ UNCHANGED <<html, details_blocks, idx, accounts, origin, now, pc, raised, returned>>
    /\ UNCHANGED <<free_accounts, catbox_url, upload, registered_users,
                   account_credentials, registered, save_failed>>
    /\ UNCHANGED appVars

\* lines 500-518: run() loads the registered users and returns when there is
\* one, before the browser is launched
RunStart ==
    /\ rpc = "idle"
    /\ runs < MaxRuns
    /\ runs' = runs + 1
    /\ rpc' = IF registered_users # <<>> THEN "idle" ELSE "register"
    /\ UNCHANGED <<html, details_blocks, idx, accounts, origin, now, pc, raised, returned>>
    /\ UNCHANGED <<free_accounts, catbox_url, upload, registered_users,
                   account_credentials, registered, save_failed>>
    /\ UNCHANGED appVars

\* lines 240-375 and 43-55: register_account returns False for an email
\* already in the file, when the site does not load, and when filling the
\* form raises (the credentials are stored by then); otherwise it saves the
\* email and returns True.  save_registered_user swallows its own failure.
RegisterAccount ==
    /\ rpc = "register"
    /\ \E email \in Emails, outcome \in {"goto_failed", "raised", "ok"}, saved \in BOOLEAN :
         IF IsAlreadyRegistered(email) \/ outcome = "goto_failed"
         THEN /\ rpc' = "close"
              /\ UNCHANGED <<account_credentials, registered, registered_users, save_failed>>
         ELSE /\ account_credentials' = email
              /\ IF outcome = "raised"
                 THEN /\ rpc' = "close"
                      /\ UNCHANGED <<registered, registered_users, save_failed>>
                 ELSE /\ rpc' = "browse"
                      /\ registered' = registered + 1
                      /\ registered_users' = IF saved THEN Append(registered_users, email)
                                                      ELSE registered_users
                      /\ save_failed' = (save_failed \/ ~saved)
    /\ UNCHANGED <<html, details_blocks, idx, accounts, origin, now, pc, raised, returned>>
    /\ UNCHANGED <<free_accounts, catbox_url, upload, runs>>
    /\ UNCHANGED appVars

\* lines 377-407 and 536-538: browse_free_services returns True or False
BrowseFreeServices ==
    /\ rpc = "browse"
    /\ \E found \in BOOLEAN : rpc' = IF found THEN "extract" ELSE "close"
    /\ UNCHANGED <<html, details_blocks, idx, accounts, origin, now, pc, raised, returned>>
    /\ UNCHANGED <<free_accounts, catbox_url, upload, registered_users,
                   account_credentials, runs, registered, save_failed>>
    /\ UNCHANGED appVars

\* lines 413-424: the page is captured and uploaded, the extraction is called
CapturePage ==
    /\ rpc = "extract"
    /\ \E out \in CurlOutputs :
         /\ upload' = UploadToCatbox(out)
         /\ catbox_url' = IF upload' # None THEN upload' ELSE catbox_url
    /\ rpc' = "extracting"
    /\ pc' = "start"
    /\ UNCHANGED <<html, details_blocks, idx, accounts, origin, now, raised, returned>>
    /\ UNCHANGED <<free_accounts, registered_users, account_credentials,
                   runs, registered, save_failed>>
    /\ UNCHANGED appVars

\* lines 416 and 438-442: page.content() raises, extract_all_accounts
\* returns False
ContentRaises ==
    /\ rpc = "extract"
    /\ rpc' = "close"
    /\ UNCHANGED <<html, details_blocks, idx, accounts, origin, now, pc, raised, returned>>
    /\ UNCHANGED <<free_accounts, catbox_url, upload, registered_users,
                   account_credentials, runs, registered, save_failed>>
    /\ UNCHANGED appVars

AttachDebugUrlToNew ==
    /\ rpc = "extracting"
    /\ pc = "done"
    /\ free_accounts' =
         free_accounts \o
         [k \in DOMAIN accounts |->
             WithDebugUrl(accounts[k], IF upload # None THEN upload ELSE NA)]
    /\ rpc' = "close"
    /\ pc' = "idle"
    /\ UNCHANGED <<html, details_blocks, idx, accounts, origin, now, raised, returned>>
    /\ UNCHANGED <<catbox_url, upload, registered_users, account_credentials,
                   runs, registered, save_failed>>
    /\ UNCHANGED appVars

\* lines 426-436: the records are appended to free_accounts and every record
\* of free_accounts gets the URL of this upload
AttachDebugUrl ==
    /\ rpc = "extracting"
    /\ pc = "done"
    /\ free_accounts' =
         IF accounts # <<>>
         THEN LET extended == free_accounts \o accounts
              IN  [k \in DOMAIN extended |->
                      WithDebugUrl(extended[k], IF upload # None THEN upload ELSE NA)]
         ELSE free_accounts
    /\ rpc' = "close"
    /\ pc' = "idle"
    /\ UNCHANGED <<html, details_blocks, idx, accounts, origin, now, raised, returned>>
    /\ UNCHANGED <<catbox_url, upload, registered_users, account_credentials,
                   runs, registered, save_failed>>
    /\ UNCHANGED appVars

\* lines 540-557: the summary, the results file and browser.close()
CloseBrowser ==
    /\ rpc = "close"
    /\ rpc' = "idle"
    /\ UNCHANGED <<html, details_blocks, idx, accounts, origin, now, pc, raised, returned>>
    /\ UNCHANGED <<free_accounts, catbox_url, upload, registered_users,
                   account_credentials, runs, registered, save_failed>>
    /\ UNCHANGED appVars



NextRun ==
    \/ RunStart
    \/ RegisterAccount
    \/ BrowseFreeServices
    \/ CapturePage
    \/ ContentRaises
    \/ FindBlocks
    \/ ProcessBlock
    \/ Return
    \/ AttachDebugUrl
    \/ CloseBrowser

SpecRun == InitRun /\ [][NextRun]_vars

(***************************************************************************)
(* app.py: GET /accounts and the background threads it starts.  A thread   *)
(* runs run_scraping, one step per group of lines that no call separates.  *)
(***************************************************************************)

\* the threads that were started and have not ended
Running == {j \in Jobs : thread[j] \notin {"none", "ended"}}

\* lines 16-37: the globals of the module; the file of registered users is
\* empty or holds a user of an earlier process
InitApp ==
    /\ html = <<>>
    /\ details_blocks = <<>>
    /\ idx = 0
    /\ accounts = <<>>
    /\ origin = <<>>
    /\ now = 0
    /\ pc = "idle"
    /\ raised = {}
    /\ returned = <<>>
    /\ free_accounts = <<>>
    /\ catbox_url = <<>>
    /\ upload = None
    /\ registered_users \in {<<>>, <<"user_1@gmail.com">>}
    /\ account_credentials = ""
    /\ rpc = "idle"
    /\ runs = 0
    /\ registered = 0
    /\ save_failed = FALSE
    /\ InitGlobals

\* what the steps of the extraction and of a direct run() leave alone
extractionVars == <<html, details_blocks, idx, accounts, origin, now, pc, raised, returned>>

runVars == <<free_accounts, catbox_url, upload, account_credentials, rpc, runs,
             registered, save_failed>>

\* a write of scraping_status["progress"] by job j
WriteProgress(j, task, p) ==
    /\ scraping_status' = [scraping_status EXCEPT !.current_task = task, !.progress = p]
    /\ wrote' = [wrote EXCEPT ![j] = p]

\* lines 141-151 and 226-236: the request is answered 409 when is_running is
\* set; otherwise the thread is started and the request is answered 'started'
GetAccounts ==
    /\ requests < MaxRequests
    /\ requests' = requests + 1
    /\ IF scraping_status.is_running
       THEN UNCHANGED thread
       ELSE thread' = [thread EXCEPT ![requests + 1] = "started"]
    /\ UNCHANGED <<scraping_status, latest_results, scraping_history, automation, wrote,
                   registered_users>>
    /\ UNCHANGED extractionVars
    /\ UNCHANGED runVars

\* lines 157-164: the first lines of the thread set is_running
JobInit(j) ==
    /\ thread[j] = "started"
    /\ thread' = [thread EXCEPT ![j] = "create"]
    /\ scraping_status' = [scraping_status EXCEPT
                              !.is_running = TRUE, !.started_at = j,
                              !.current_task = "Initializing", !.progress = 0,
                              !.error = "None", !.results = <<>>]
    /\ wrote' = [wrote EXCEPT ![j] = 0]
    /\ UNCHANGED <<latest_results, scraping_history, automation, requests, registered_users>>
    /\ UNCHANGED extractionVars
    /\ UNCHANGED runVars

\* lines 167-169: progress 10, the instance is created
JobCreate(j) ==
    /\ thread[j] = "create"
    /\ thread' = [thread EXCEPT ![j] = "wrap"]
    /\ WriteProgress(j, "Creating automation instance", 10)
    /\ UNCHANGED <<latest_results, scraping_history, automation, requests, registered_users>>
    /\ UNCHANGED extractionVars
    /\ UNCHANGED runVars

\* lines 171-197: the methods are wrapped, then progress 5
JobStartAutomation(j) ==
    /\ thread[j] = "wrap"
    /\ thread' = [thread EXCEPT ![j] = "run"]
    /\ WriteProgress(j, "Starting browser automation", 5)
    /\ UNCHANGED <<latest_results, scraping_history, automation, requests, registered_users>>
    /\ UNCHANGED extractionVars
    /\ UNCHANGED runVars

\* line 198 and run() lines 495-518: playwright or the launch of the browser
\* raises, or run() returns at once because the file holds a user, or it
\* goes on to register
JobRun(j) ==
    /\ thread[j] = "run"
    /\ \E launched \in BOOLEAN :
         thread' = [thread EXCEPT ![j] =
                       IF registered_users # <<>> THEN "results"
                       ELSE IF launched THEN "register" ELSE "except"]
    /\ UNCHANGED <<scraping_status, latest_results, scraping_history, automation, wrote,
                   requests, registered_users>>
    /\ UNCHANGED extractionVars
    /\ UNCHANGED runVars

\* lines 172-175 and register_account: progress 20, then the registration,
\* which saves the email when it succeeds and the save does not fail
JobRegister(j) ==
    /\ thread[j] = "register"
    /\ WriteProgress(j, "Registering new account", 20)
    /\ \E email \in Emails, ok \in BOOLEAN, saved \in BOOLEAN :
         IF ok /\ ~IsAlreadyRegistered(email)
         THEN /\ thread' = [thread EXCEPT ![j] = "browse"]
              /\ registered_users' = IF saved THEN Append(registered_users, email)
                                              ELSE registered_users
         ELSE /\ thread' = [thread EXCEPT ![j] = "results"]
              /\ UNCHANGED registered_users
    /\ UNCHANGED <<latest_results, scraping_history, automation, requests>>
    /\ UNCHANGED extractionVars
    /\ UNCHANGED runVars

\* lines 179-182 and browse_free_services: progress 40
JobBrowse(j) ==
    /\ thread[j] = "browse"
    /\ WriteProgress(j, "Navigating to free services", 40)
    /\ \E found \in BOOLEAN :
         thread' = [thread EXCEPT ![j] = IF found THEN "extract" ELSE "results"]
    /\ UNCHANGED <<latest_results, scraping_history, automation, requests, registered_users>>
    /\ UNCHANGED extractionVars
    /\ UNCHANGED runVars

\* lines 186-189 and extract_all_accounts: progress 60, then the instance's
\* free_accounts hold what the page gave (automation[j] is their number)
JobExtract(j) ==
    /\ thread[j] = "extract"
    /\ thread' = [thread EXCEPT ![j] = "extracted"]
    /\ WriteProgress(j, "Extracting accounts", 60)
    /\ \E page \in Pages :
         automation' = [automation EXCEPT ![j] = Len(FindAllDetails(page, 1))]
    /\ UNCHANGED <<latest_results, scraping_history, requests, registered_users>>
    /\ UNCHANGED extractionVars
    /\ UNCHANGED runVars

\* line 190: progress 80
JobExtracted(j) ==
    /\ thread[j] = "extracted"
    /\ thread' = [thread EXCEPT ![j] = "results"]
    /\ WriteProgress(j, scraping_status.current_task, 80)
    /\ UNCHANGED <<latest_results, scraping_history, automation, requests, registered_users>>
    /\ UNCHANGED extractionVars
    /\ UNCHANGED runVars

\* lines 201-211 and 51-59: latest_results is replaced and a copy of it is
\* appended to scraping_history
JobResults(j) ==
    /\ thread[j] = "results"
    /\ thread' = [thread EXCEPT ![j] = "completed"]
    /\ latest_results' = [session_id |-> j, total_accounts |-> automation[j]]
    /\ scraping_history' = Append(scraping_history, latest_results')
    /\ UNCHANGED <<scraping_status, automation, wrote, requests, registered_users>>
    /\ UNCHANGED extractionVars
    /\ UNCHANGED runVars

\* lines 214-217: 'Completed', progress 100, results, completed_at
JobCompleted(j) ==
    /\ thread[j] = "completed"
    /\ thread' = [thread EXCEPT ![j] = "finally"]
    /\ scraping_status' = [scraping_status EXCEPT
                              !.current_task = "Completed", !.progress = 100,
                              !.results = <<latest_results>>, !.completed_at = j]
    /\ wrote' = [wrote EXCEPT ![j] = 100]
    /\ UNCHANGED <<latest_results, scraping_history, automation, requests, registered_users>>
    /\ UNCHANGED extractionVars
    /\ UNCHANGED runVars

\* lines 219-222: the handler of the thread
JobExcept(j) ==
    /\ thread[j] = "except"
    /\ thread' = [thread EXCEPT ![j] = "finally"]
    /\ scraping_status' = [scraping_status EXCEPT
                              !.error = "launch failed",
                              !.current_task = "Error occurred", !.completed_at = j]
    /\ UNCHANGED <<latest_results, scraping_history, automation, wrote, requests,
                   registered_users>>
    /\ UNCHANGED extractionVars
    /\ UNCHANGED runVars

\* lines 223-224: finally, is_running = False
JobFinally(j) ==
    /\ thread[j] = "finally"
    /\ thread' = [thread EXCEPT ![j] = "ended"]
    /\ scraping_status' = [scraping_status EXCEPT !.is_running = FALSE]
    /\ UNCHANGED <<latest_results, scraping_history, automation, wrote, requests,
                   registered_users>>
    /\ UNCHANGED extractionVars
    /\ UNCHANGED runVars

NextApp ==
    \/ GetAccounts
    \/ \E j \in Jobs : JobInit(j)
    \/ \E j \in Jobs : JobCreate(j)
    \/ \E j \in Jobs : JobStartAutomation(j)
    \/ \E j \in Jobs : JobRun(j)
    \/ \E j \in Jobs : JobRegister(j)
    \/ \E j \in Jobs : JobBrowse(j)
    \/ \E j \in Jobs : JobExtract(j)
    \/ \E j \in Jobs : JobExtracted(j)
    \/ \E j \in Jobs : JobResults(j)
    \/ \E j \in Jobs : JobCompleted(j)
    \/ \E j \in Jobs : JobExcept(j)
    \/ \E j \in Jobs : JobFinally(j)

SpecApp == InitApp /\ [][NextApp]_vars

----------------------------------------------------------------------------
(* Properties *)

\* the block the k-th record was made from
BlockOf(k) == details_blocks[origin[k]]

\* the records made so far, one per entry of origin
Records == DOMAIN accounts

\* the block gives one of the three signals
BlockSignal(block) ==
    \/ ResolveEmail(block) # <<>>
    \/ ResolvePassword(block) # <<>>
    \/ IsCookieService(block)

\* C1: a block that has been processed has a record if and only if its
\* resolved email, its resolved password or its cookie indicator is
\* non-empty/true; when the call has returned, there are as many records as
\* blocks exactly when every block gave a signal.
C1_RecordIffSignal ==
    /\ Len(origin) = Len(accounts)
    /\ \A i \in 1..idx :
          (\E k \in Records : origin[k] = i) <=> BlockSignal(details_blocks[i])
    /\ \A i \in (idx + 1)..Len(details_blocks) : \A k \in Records : origin[k] # i
    /\ Len(accounts) <= Len(details_blocks)
    /\ pc = "done" =>
          ((Len(accounts) = Len(details_blocks))
             <=> \A i \in DOMAIN details_blocks : BlockSignal(details_blocks[i]))

\* a returned call in which one block gave a record and another was dropped
C1_Witness ==
    /\ pc = "done"
    /\ Len(details_blocks) = 2
    /\ Len(accounts) = 1
    /\ origin = <<2>>
    /\ ~BlockSignal(details_blocks[1])
    /\ details_blocks[1] # <<>>

\* the lowercased text of the block contains the substring cookie
TextHasCookie(block) ==
    \E i \in DOMAIN block : HasSub(Lower(block[i].v), CookieWord)

\* least element of a non-empty set of indices
Least(S) == CHOOSE x \in S : \A y \in S : x <= y

\* what a record shows for a resolved value
Shown(value, sentinel) == IF value # <<>> THEN value ELSE sentinel

\* C2 as stated: a resolved email forces type Email/Password whatever the
\* cookie indicator; a cookie block without an email is Cookie-based.
C2_Original ==
    \A k \in Records :
        LET e == ResolveEmail(BlockOf(k))
        IN  /\ e # <<>> => accounts[k].type = "Email/Password"
            /\ (TextHasCookie(BlockOf(k)) /\ e = <<>>) => accounts[k].type = "Cookie-based"

\* C2 (amended): the type of a record is Cookie-based exactly when the
\* block's cookie indicator is true, whether or not an email or a password
\* was resolved, and Email/Password otherwise.
C2_TypeFollowsCookie ==
    \A k \in Records :
        accounts[k].type =
            IF TextHasCookie(BlockOf(k)) THEN "Cookie-based" ELSE "Email/Password"

\* a cookie block in which an email was resolved, recorded as Cookie-based
C2_Witness ==
    \E k \in Records :
        /\ TextHasCookie(BlockOf(k))
        /\ ResolveEmail(BlockOf(k)) = AddrVal
        /\ accounts[k].email = AddrVal
        /\ accounts[k].type = "Cookie-based"

\* C3: a processed block whose lowercased text contains cookie and in which
\* no email is resolved has a record, of type Cookie-based and with email
\* 'Cookie-based login'.
C3_CookieWithoutEmail ==
    \A i \in 1..idx :
        (TextHasCookie(details_blocks[i]) /\ ResolveEmail(details_blocks[i]) = <<>>)
            => \E k \in Records :
                  /\ origin[k] = i
                  /\ accounts[k].type = "Cookie-based"
                  /\ accounts[k].email = CookieLogin

\* a cookie block with a password and no email, recorded with the sentinel
C3_Witness ==
    \E k \in Records :
        /\ TextHasCookie(BlockOf(k))
        /\ ResolveEmail(BlockOf(k)) = <<>>
        /\ accounts[k].password = SecretVal
        /\ accounts[k].email = CookieLogin
        /\ accounts[k].type = "Cookie-based"

\* C4 as stated: a record's email is the sentinel 'Cookie-based login' only
\* when its type is Cookie-based and no address was found; an Email/Password
\* record never has the sentinel as its email.
C4_Original ==
    \A k \in Records :
        /\ accounts[k].email = CookieLogin =>
              (accounts[k].type = "Cookie-based" /\ ResolveEmail(BlockOf(k)) = <<>>)
        /\ accounts[k].type = "Email/Password" => accounts[k].email # CookieLogin

\* the block consists of exactly two data-copy attributes, carrying a and v
TwoCopies(block, a, v) ==
    /\ Len(block) = 2
    /\ \/ block = <<Item("DataCopy", a), Item("DataCopy", v)>>
       \/ block = <<Item("DataCopy", v), Item("DataCopy", a)>>

\* the values a data-copy attribute takes in the documents checked
CopyValues == {t.v : t \in {u \in BlockItems : u.k = "DataCopy"}}

\* an address and a value without '@' longer than 5 characters
AddressAndSecret(a, v) == IsAddress(a) /\ ~HasChar(v, "@") /\ Len(v) > 5

\* C5 as stated: a block of exactly two data-copy attributes, an address
\* and a value without '@' longer than 5 characters, in either order,
\* resolves the email to the address and the password to the other value.
C5_Original ==
    \A i \in 1..idx : \A a \in CopyValues : \A v \in CopyValues :
        (TwoCopies(details_blocks[i], a, v) /\ AddressAndSecret(a, v))
            => \E k \in Records :
                  /\ origin[k] = i
                  /\ accounts[k].email = a
                  /\ accounts[k].password = v

\* C5 (amended): in such a block, in either order, the email resolves to
\* the address and the password to the other value with its leading and
\* trailing whitespace removed; when nothing is left the record shows N/A.
C5_Disambiguation ==
    \A i \in 1..idx : \A a \in CopyValues : \A v \in CopyValues :
        (TwoCopies(details_blocks[i], a, v) /\ AddressAndSecret(a, v))
            => \E k \in Records :
                  /\ origin[k] = i
                  /\ accounts[k].email = a
                  /\ accounts[k].password = Shown(Strip(v), NA)

\* the password attribute comes first and is still taken as the password
C5_Witness ==
    /\ pc = "done"
    /\ details_blocks = <<<<Item("DataCopy", SecretVal), Item("DataCopy", AddrVal)>>>>
    /\ Len(accounts) = 1
    /\ accounts[1].email = AddrVal
    /\ accounts[1].password = SecretVal

\* the items of the block that each password strategy looks at
PwdSpans(block) == {i \in DOMAIN block : block[i].k = "PwdSpan" /\ block[i].v # <<>>}
PwdCopies(block) ==
    {i \in DOMAIN block :
        block[i].k = "DataCopy" /\ ~HasChar(block[i].v, "@") /\ Len(block[i].v) > 5}
PwdBares(block) == {i \in DOMAIN block : block[i].k = "PwdBare"}

\* the bare token, accepted only without '@'
BareChoice(block) ==
    IF PwdBares(block) # {} /\ ~HasChar(BareToken(block[Least(PwdBares(block))].v), "@")
    THEN BareToken(block[Least(PwdBares(block))].v)
    ELSE <<>>

\* the precedence as stated: the span value if the span form matches, else
\* the first qualifying data-copy value, else the bare token
StatedPassword(block) ==
    IF PwdSpans(block) # {} THEN block[Least(PwdSpans(block))].v
    ELSE IF PwdCopies(block) # {} THEN block[Least(PwdCopies(block))].v
    ELSE BareChoice(block)

\* the precedence of the code: each strategy's value is stripped, and a
\* strategy whose stripped value is empty gives way to the next one
StrippedPassword(block) ==
    LET s1 == IF PwdSpans(block) # {} THEN Strip(block[Least(PwdSpans(block))].v) ELSE <<>>
        s2 == IF PwdCopies(block) # {} THEN Strip(block[Least(PwdCopies(block))].v) ELSE <<>>
    IN  IF s1 # <<>> THEN s1 ELSE IF s2 # <<>> THEN s2 ELSE BareChoice(block)

\* C6 as stated: the password of a record is the span value whenever the
\* span form matches, else the first data-copy value without '@' longer than
\* 5 characters, else the bare token without '@'.
C6_Original ==
    \A k \in Records : accounts[k].password = Shown(StatedPassword(BlockOf(k)), NA)

\* C6 (amended): the password is the first non-empty one of: the stripped
\* value of the first Password span; the stripped value of the first
\* data-copy value without '@' longer than 5 characters; the bare token
\* after Password, if it has no '@'.  A block for which one of them is
\* non-empty has a record, and a later strategy never replaces an earlier one.
C6_Precedence ==
    /\ \A k \in Records :
          accounts[k].password = Shown(StrippedPassword(BlockOf(k)), NA)
    /\ \A i \in 1..idx :
          StrippedPassword(details_blocks[i]) # <<>> => \E k \in Records : origin[k] = i

\* all three forms are present and the span value is the password
C6_Witness ==
    \E k \in Records :
        /\ PwdSpans(BlockOf(k)) # {}
        /\ PwdCopies(BlockOf(k)) # {}
        /\ PwdBares(BlockOf(k)) # {}
        /\ Strip(BlockOf(k)[Least(PwdCopies(BlockOf(k)))].v) # <<>>
        /\ accounts[k].password = ShortVal

\* the password of the block comes from the scan of the data-copy values
PasswordFromScan(block) ==
    /\ \A i \in PwdSpans(block) : Strip(block[i].v) = <<>>
    /\ PwdCopies(block) # {}
    /\ Strip(block[Least(PwdCopies(block))].v) # <<>>

\* C7 as stated: every non-empty resolved email contains '@', so a password
\* taken by the scan of the data-copy values never equals the email.
C7_Original ==
    \A k \in Records :
        /\ ResolveEmail(BlockOf(k)) # <<>> => HasChar(accounts[k].email, "@")
        /\ PasswordFromScan(BlockOf(k)) => accounts[k].password # accounts[k].email

\* C7 (amended): a non-empty email resolved without the span form (by the
\* bare address after Email or by a data-copy address) contains '@'; a
\* password taken by the scan of the data-copy values contains no '@', so
\* it differs from every email that contains one.
C7_ScanSkipsAddresses ==
    \A k \in Records :
        /\ ((\A i \in DOMAIN BlockOf(k) : BlockOf(k)[i].k # "EmailSpan")
                /\ ResolveEmail(BlockOf(k)) # <<>>)
              => HasChar(accounts[k].email, "@")
        /\ PasswordFromScan(BlockOf(k)) =>
              /\ ~HasChar(accounts[k].password, "@")
              /\ HasChar(accounts[k].email, "@") => accounts[k].password # accounts[k].email

\* email from a data-copy address, password from the scan past that address
C7_Witness ==
    \E k \in Records :
        /\ BlockOf(k)[1] = Item("DataCopy", AddrVal)
        /\ \A i \in DOMAIN BlockOf(k) : BlockOf(k)[i].k = "DataCopy"
        /\ PasswordFromScan(BlockOf(k))
        /\ accounts[k].email = AddrVal
        /\ accounts[k].password = SecretVal

\* C8: a record whose block has no strong-tagged label has the service name
\* Service_<n>, n being the 1-based position of the block among all the
\* blocks of the document, whether or not the earlier blocks gave records.
C8_PlaceholderName ==
    \A k \in Records :
        (\A i \in DOMAIN BlockOf(k) : BlockOf(k)[i].k # "Strong")
            => accounts[k].service = ServicePrefix \o Str(origin[k])

\* the first block gives no record and the second is named Service_2
C8_Witness ==
    /\ Len(details_blocks) >= 2
    /\ Len(accounts) >= 1
    /\ origin[1] = 2
    /\ accounts[1].service = <<"S","e","r","v","i","c","e","_","2">>

\* the hrefs of the block that contain official.php
OfficialHrefs(block) ==
    {i \in DOMAIN block : block[i].k = "Href" /\ HasSub(block[i].v, OfficialPhp)}

\* C9: official_website is N/A when the block has no href containing
\* official.php; otherwise it is the first such href, unchanged when it
\* starts with http and appended to https://www.oxaam.com/ when it does
\* not; so it is N/A or starts with http.
C9_OfficialLink ==
    \A k \in Records :
        LET hrefs == OfficialHrefs(BlockOf(k))
            site == accounts[k].official_website
        IN  /\ hrefs = {} => site = NA
            /\ hrefs # {} =>
                  LET h == BlockOf(k)[Least(hrefs)].v
                  IN  site = IF StartsWith(h, Http) THEN h ELSE BaseUrl \o h
            /\ site = NA \/ StartsWith(site, Http)

\* a relative link, recorded under the base origin
C9_Witness ==
    \E k \in Records :
        /\ OfficialHrefs(BlockOf(k)) # {}
        /\ BlockOf(k)[Least(OfficialHrefs(BlockOf(k)))].v = RelHref
        /\ accounts[k].official_website = BaseUrl \o RelHref

\* C10: each block gives at most one record, the records are in the order
\* of their blocks and each shows the fields of its own block; a document
\* without a details block has no blocks and returns the empty sequence.
C10_OrderPreserved ==
    /\ Len(origin) = Len(accounts)
    /\ \A k \in Records :
          /\ origin[k] \in 1..idx
          /\ k > 1 => origin[k - 1] < origin[k]
          /\ accounts[k].service = ServiceName(BlockOf(k), origin[k])
          /\ accounts[k].email = Shown(ResolveEmail(BlockOf(k)), CookieLogin)
          /\ accounts[k].password = Shown(ResolvePassword(BlockOf(k)), NA)
          /\ k > 1 => accounts[k - 1].retrieved_at <= accounts[k].retrieved_at
    /\ (pc # "start" /\ \A i \in DOMAIN html : html[i].k # "Open") => details_blocks = <<>>
    /\ (pc = "done" /\ details_blocks = <<>>) => accounts = <<>>

\* two different records, in the order of their two blocks
C10_Witness ==
    /\ pc = "done"
    /\ origin = <<1, 2>>
    /\ accounts[1].email = CookieLogin
    /\ accounts[2].email = AddrVal
    /\ accounts[1].service # accounts[2].service

\* C11 as stated: a block whose processing raised has no record; the records
\* made before it are kept and the blocks after it are processed as usual
\* (a record exactly for those that give a signal), up to the return.
C11_Original ==
    /\ \A i \in raised : \A k \in Records : origin[k] # i
    /\ \A i \in 1..idx :
          i \notin raised =>
              ((\E k \in Records : origin[k] = i) <=> BlockSignal(details_blocks[i]))

\* a record without the time it was made at
Untimed(r) == [f \in DOMAIN r \ {"retrieved_at"} |-> r[f]]

WithoutDebugUrl(r) == [f \in DOMAIN r \ {"debug_html_url"} |-> r[f]]

\* the value line 432 attaches for the upload of the current call
AttachedUrl == IF upload # None THEN upload ELSE NA

\* C13: when extract_all_accounts completes having extracted at least one
\* record, every record of free_accounts, the older ones included, carries
\* debug_html_url with the same value, the URL of this call's upload or 'N/A'
\* when the upload failed; the new records are the extracted ones in order;
\* and no step of the program changes any other field of a record that is
\* already in free_accounts, or removes a record.
C13_UniformDebugUrl ==
    [][ /\ Len(free_accounts') >= Len(free_accounts)
        /\ \A k \in DOMAIN free_accounts :
              WithoutDebugUrl(free_accounts'[k]) = WithoutDebugUrl(free_accounts[k])
        /\ (rpc = "extracting" /\ rpc' = "close" /\ accounts # <<>>) =>
              /\ Len(free_accounts') = Len(free_accounts) + Len(accounts)
              /\ \A k \in DOMAIN free_accounts' :
                    /\ "debug_html_url" \in DOMAIN free_accounts'[k]
                    /\ free_accounts'[k].debug_html_url = AttachedUrl
              /\ \A j \in DOMAIN accounts :
                    WithoutDebugUrl(free_accounts'[Len(free_accounts) + j]) = accounts[j]
        /\ (rpc = "extracting" /\ rpc' = "close" /\ accounts = <<>>) =>
              free_accounts' = free_accounts
      ]_vars

\* a second extraction on the instance has completed with records of its
\* own, its upload failed while the first one's had succeeded, and the
\* records of the first extraction now say 'N/A'
C13_Witness ==
    /\ rpc = "close"
    /\ Len(returned) = 2
    /\ accounts # <<>>
    /\ Len(free_accounts) > Len(accounts)
    /\ upload = None
    /\ catbox_url # <<>>
    /\ free_accounts[1].debug_html_url = NA

\* C15: run() goes on to registration, navigation and extraction only when
\* the file of registered users is empty; when it is not, the call returns
\* at once and free_accounts, account_credentials and the file stay as they
\* were.  As long as no save of a registered user has failed, at most one
\* register_account has succeeded over all the runs, and its email is in
\* the file.
C15_OneRegistration ==
    [][ /\ (rpc = "idle" /\ runs' # runs /\ registered_users # <<>>) =>
              /\ rpc' = "idle"
              /\ UNCHANGED <<free_accounts, account_credentials, registered_users,
                             registered, catbox_url, pc>>
        /\ (rpc = "idle" /\ rpc' # "idle") => registered_users = <<>>
        /\ ~save_failed' => /\ registered' <= 1
                            /\ registered' = Len(registered_users')
      ]_vars

\* the first run registered, saved the email and extracted records; the
\* second run returned at once
C15_Witness ==
    /\ runs = 2
    /\ rpc = "idle"
    /\ registered = 1
    /\ ~save_failed
    /\ Len(registered_users) = 1
    /\ free_accounts # <<>>
    /\ Len(returned) = 1

(***************************************************************************)
(* C14, C16, C17: the jobs of app.py                                       *)
(***************************************************************************)

\* C14 as stated: at most one scraping job is running at any time; a request
\* that arrives after another one was answered 'started' and before that job
\* has finished starts no second thread.
C14_Original == Cardinality(Running) <= 1

\* the entries of scraping_history that job j appended
HistoryOf(j) == {k \in DOMAIN scraping_history : scraping_history[k].session_id = j}

\* the job ended in error: nothing of it in the history or in latest_results
ErrorOutcome(j) ==
    /\ scraping_status.error # "None"
    /\ scraping_status.current_task = "Error occurred"
    /\ HistoryOf(j) = {}
    /\ latest_results.session_id # j

\* the job completed: one entry of it in the history
CompletedOutcome(j) ==
    /\ scraping_status.error = "None"
    /\ scraping_status.progress = 100
    /\ scraping_status.current_task = "Completed"
    /\ scraping_status.results = <<latest_results>>
    /\ Cardinality(HistoryOf(j)) = 1

\* C16 as stated: when a started job terminates, is_running is False,
\* completed_at holds a timestamp, and the status shows exactly one of the
\* two outcomes: the error outcome with no history entry and latest_results
\* untouched, or the completed outcome with progress 100, 'Completed',
\* results equal to latest_results and one history entry.
C16_Original ==
    [][ \A j \in Jobs :
          (thread[j] = "finally" /\ thread'[j] = "ended") =>
             /\ ~scraping_status'.is_running
             /\ scraping_status'.completed_at # 0
             /\ (ErrorOutcome(j)' \/ CompletedOutcome(j)')
      ]_vars

\* C17 as stated: within one job, every write of progress is greater than or
\* equal to the job's previous write.
C17_Original == [][ \A j \in Jobs : wrote'[j] >= wrote[j] ]_vars

====
